---------------------------- MODULE Spec2Model ----------------------------
(***************************************************************************)
(* Model of standardize_data_copy.py: the reconciliation of a target       *)
(* table against a reference table's column layout (standardize_data),     *)
(* the dot-number stripping of column names (remove_column_numbering) and  *)
(* the batch loop over a folder (standardize_folder).                      *)
(*                                                                         *)
(* A column name is a sequence of one-character strings, so that the       *)
(* regular expression and the f-string of the source act on characters.    *)
(* A DataFrame is a record [columns, data, nrows]: the column names left   *)
(* to right, the cells of each column, the length of the row index.  The   *)
(* table a file holds is the table read_file returns for it, and its       *)
(* column names may repeat, as the tables of the specification do.         *)
(*                                                                         *)
(* The pandas operations the source uses are modelled by what they do:     *)
(*   df[key] = series  aligns the series to the frame's row index, gives   *)
(*                     an empty frame the index of a non-empty series,     *)
(*                     overwrites a column of that name in place and       *)
(*                     appends one otherwise;                              *)
(*   df[name]          is the column of that name, and a DataFrame of all  *)
(*                     the columns of that name when the name repeats;     *)
(*                     assigning a DataFrame of several columns to one     *)
(*                     key raises ValueError.                              *)
(*                                                                         *)
(* Three specifications: Spec is one call of standardize_data on a base    *)
(* file and a new file, StripSpec is remove_column_numbering applied       *)
(* twice to a frame, FolderSpec is standardize_folder.                     *)
(***************************************************************************)
EXTENDS Integers, Sequences, FiniteSets, TLC

\* ------------------------------------------------------------- bounds
\* Largest number of columns of a table a file holds.
MaxCols == 3
\* Largest number of rows of a table a file holds.
MaxRows == 2
\* Longest column name given to the stripping step on its own.
MaxLen == 5
\* Largest number of entries of the processed folder.
MaxFiles == 3

\* ------------------------------------------------------------ strings
Digits == <<"0", "1", "2", "3", "4", "5", "6", "7", "8", "9">>

DigitChars == {Digits[i] : i \in 1..10}

\* str(n) of a natural number, as the f-string f"{col}_{i+1}" formats it.
RECURSIVE ToStr(_)
ToStr(n) ==
    IF n < 10 THEN <<Digits[n + 1]>>
    ELSE ToStr(n \div 10) \o <<Digits[(n % 10) + 1]>>

\* The number of digit characters a name ends in (the \d+ before $).
RECURSIVE TrailingDigits(_)
TrailingDigits(s) ==
    IF Len(s) = 0 \/ s[Len(s)] \notin DigitChars THEN 0
    ELSE 1 + TrailingDigits(SubSeq(s, 1, Len(s) - 1))

\* Whether r'\.\d+$' matches: a dot, then one or more digits, then the end.
EndsWithDotNumber(s) ==
    LET k == TrailingDigits(s)
    IN  k >= 1 /\ Len(s) - k >= 1 /\ s[Len(s) - k] = "."

\* A plausible slip: the pattern r'\.?\d+$', whose dot is optional.
StripOptionalDot(s) ==
    LET k == TrailingDigits(s)
    IN  IF k = 0 THEN s
        ELSE IF Len(s) - k >= 1 /\ s[Len(s) - k] = "."
             THEN SubSeq(s, 1, Len(s) - k - 1)
             ELSE SubSeq(s, 1, Len(s) - k)

\* re.sub(r'\.\d+$', '', col): the one match the pattern can have is removed.
\* (No name of the model ends in a newline, before which $ matches too.)
Strip(s) ==
    IF EndsWithDotNumber(s)
    THEN SubSeq(s, 1, Len(s) - TrailingDigits(s) - 1)
    ELSE s

\* f"{col}_{i+1}", given the number i+1.
Suffixed(col, n) == col \o <<"_">> \o ToStr(n)

\* ---------------------------------------------------------- sequences
Range(s) == {s[i] : i \in 1..Len(s)}

\* The number of entries of cols equal to col (base_column_counts[col]).
Count(col, cols) == Cardinality({i \in 1..Len(cols) : cols[i] = col})

\* The positions of cols that hold col, left to right as a set.
Positions(col, cols) == {i \in 1..Len(cols) : cols[i] = col}

\* The list of distinct names of cols in the order of first occurrence.
RECURSIVE UniqueColumns(_)
UniqueColumns(cols) ==
    IF Len(cols) = 0 THEN <<>>
    ELSE LET front == SubSeq(cols, 1, Len(cols) - 1)
             col   == cols[Len(cols)]
         IN  IF col \in Range(front) THEN UniqueColumns(front)
             ELSE Append(UniqueColumns(front), col)


\* --------------------------------------------------------- DataFrames
\* The missing value a reindexed cell holds.
NaN == <<-1, -1, -1>>

\* pd.DataFrame(): no columns, an empty row index.
EmptyFrame == [columns |-> <<>>, data |-> <<>>, nrows |-> 0]

\* pd.Series(dtype='object'): a series of length 0.
EmptySeries == <<>>

\* A series aligned to a row index 0..n-1: labels it lacks hold NaN.
Reindex(series, n) == [r \in 1..n |-> IF r <= Len(series) THEN series[r] ELSE NaN]

\* df[key] = series.  A frame whose index is empty takes the index of a
\* non-empty value (its columns become NaN); otherwise the value is aligned
\* to the frame's index.  An existing key is overwritten in place, a new
\* key is appended as the last column.
SetItem(df, key, series) ==
    LET n   == IF df.nrows = 0 /\ Len(series) > 0 THEN Len(series) ELSE df.nrows
        old == [j \in 1..Len(df.columns) |-> Reindex(df.data[j], n)]
        val == Reindex(series, n)
    IN  IF key \in Range(df.columns)
        THEN [columns |-> df.columns,
              data    |-> [j \in 1..Len(old) |->
                              IF df.columns[j] = key THEN val ELSE old[j]],
              nrows   |-> n]
        ELSE [columns |-> Append(df.columns, key),
              data    |-> Append(old, val),
              nrows   |-> n]

\* df[key] for a key the frame has.  One column of that name gives the
\* column (a Series); a repeated name gives all its columns (a DataFrame).
GetItem(df, key) ==
    IF Cardinality(Positions(key, df.columns)) = 1
    THEN [ndim |-> 1,
          values |-> df.data[CHOOSE j \in Positions(key, df.columns) : TRUE]]
    ELSE [ndim |-> 2, values |-> <<>>]

\* ------------------------------------------------- remove_column_numbering
\* Every column name with its trailing .number removed; the data is kept.
remove_column_numbering(df) ==
    [columns |-> [j \in 1..Len(df.columns) |-> Strip(df.columns[j])],
     data    |-> df.data,
     nrows   |-> df.nrows]

\* ------------------------------------------------------ standardize_data
\* missing_instances: (col, required, found) for every name of the base
\* file the new file has fewer instances of, in the dict's insertion order.
missing_instances(base_columns, new_columns) ==
    LET names == UniqueColumns(base_columns)
        short == SelectSeq(names,
                     LAMBDA col : Count(col, new_columns) < Count(col, base_columns))
    IN  [k \in 1..Len(short) |->
            <<short[k], Count(short[k], base_columns), Count(short[k], new_columns)>>]

\* A plausible slip: the new file's columns are matched after their
\* trailing .number is removed, instead of by the name as it stands.
AssignmentsByStrippedName(col, base_columns, new_columns) ==
    LET new_col_instances == SelectSeq(new_columns, LAMBDA c : Strip(c) = Strip(col))
        required_count    == Count(col, base_columns)
    IN  IF required_count = 1
        THEN << [key  |-> col,
                 from |-> IF Len(new_col_instances) > 0
                          THEN <<new_col_instances[1]>> ELSE <<>>] >>
        ELSE [n \in 1..required_count |->
                 [key  |-> Suffixed(col, n),
                  from |-> IF n - 1 < Len(new_col_instances)
                           THEN <<new_col_instances[n]>> ELSE <<>>]]

\* The assignments the loop body makes for one name of the base file: the
\* key assigned and the name looked up in the new file (<<>>: an empty
\* series is assigned).
Assignments(col, base_columns, new_columns) ==
    LET new_col_instances == SelectSeq(new_columns, LAMBDA c : c = col)
        required_count    == Count(col, base_columns)
    IN  IF required_count = 1
        THEN << [key  |-> col,
                 from |-> IF Len(new_col_instances) > 0
                          THEN <<new_col_instances[1]>> ELSE <<>>] >>
        ELSE [n \in 1..required_count |->
                 [key  |-> Suffixed(col, n),
                  from |-> IF n - 1 < Len(new_col_instances)
                           THEN <<new_col_instances[n]>> ELSE <<>>]]

\* All assignments of the loop over unique_columns, in order.
RECURSIVE Plan(_, _, _)
Plan(names, base_columns, new_columns) ==
    IF Len(names) = 0 THEN <<>>
    ELSE Assignments(Head(names), base_columns, new_columns)
             \o Plan(Tail(names), base_columns, new_columns)

\* F applied to the value of x: the argument is evaluated once, before F.
AppliedTo(F(_), x) == CHOOSE y \in {F(v) : v \in {x}} : TRUE

\* The assignments carried out on standardized_df.  Assigning a DataFrame
\* (the lookup of a repeated name) to one column raises ValueError.
RECURSIVE Build(_, _, _)
Build(df, plan, new_df) ==
    IF Len(plan) = 0 THEN [ok |-> TRUE, df |-> df]
    ELSE LET a == Head(plan)
         IN  IF Len(a.from) = 0
             THEN AppliedTo(LAMBDA d : Build(d, Tail(plan), new_df),
                            SetItem(df, a.key, EmptySeries))
             ELSE LET v == GetItem(new_df, a.from[1])
                  IN  IF v.ndim = 2
                      THEN [ok |-> FALSE, df |-> df]
                      ELSE AppliedTo(LAMBDA d : Build(d, Tail(plan), new_df),
                                     SetItem(df, a.key, v.values))

\* standardize_data between the two reads and the save: the warnings
\* printed, whether the table was built, the table before and after the
\* renaming.
Reconcile(base_df, new_df) ==
    LET base_columns == base_df.columns
        new_columns  == new_df.columns
    IN  AppliedTo(
            LAMBDA built :
                [ok       |-> built.ok,
                 warnings |-> missing_instances(base_columns, new_columns),
                 built    |-> built.df,
                 final    |-> remove_column_numbering(built.df)],
            Build(EmptyFrame,
                  Plan(UniqueColumns(base_columns), base_columns, new_columns),
                  new_df))

\* -------------------------------------------------------------- files
VARIABLES
    fs,                \* path -> what the path holds: a table, nothing, garbage
    locked,            \* the paths a write is denied on (open elsewhere, read-only)
    folder,            \* whether the folder exists, and its entries
    base_file,         \* the base file's path
    new_file,          \* the file standardize_data is called on
    files_to_process,  \* standardize_folder's list
    file_index,        \* the position of its loop in the list
    pc,                \* where the program is
    call,              \* what the last standardize_data call did
    attempts,          \* path -> the number of standardize_data calls on it
    fs0,               \* fs when the program started
    df,                \* the frame remove_column_numbering is applied to
    trail              \* its column names: at the start, after each application

vars == <<fs, locked, folder, base_file, new_file, files_to_process,
          file_index, pc, call, attempts, fs0, df, trail>>

\* What a path holds: a table, no file at all, or something pandas cannot
\* parse (a directory, a damaged workbook).
Holds(frame) == [kind |-> "table", table |-> frame]

Absent == [kind |-> "absent", table |-> EmptyFrame]

Corrupt == [kind |-> "corrupt", table |-> EmptyFrame]

Path(stem, suffix) == [stem |-> stem, suffix |-> suffix]

\* str.lower() on the suffixes the model uses.
Lower(suffix) ==
    CASE suffix = ".CSV"  -> ".csv"
      [] suffix = ".XLSX" -> ".xlsx"
      [] OTHER            -> suffix

\* The table a file of the model holds: every cell names its file, column
\* and row, so that a cell of the output tells where it came from.
Frame(stem, columns, nrows) ==
    [columns |-> columns,
     data    |-> [j \in 1..Len(columns) |-> [r \in 1..nrows |-> <<stem, j, r>>]],
     nrows   |-> nrows]

\* read_file: ValueError for another extension, then what pandas makes of
\* the file.
read_file(fsys, file_path) ==
    IF Lower(file_path.suffix) \notin {".csv", ".xlsx"}
    THEN [ok |-> FALSE, df |-> EmptyFrame]
    ELSE IF fsys[file_path].kind # "table"
    THEN [ok |-> FALSE, df |-> EmptyFrame]
    ELSE [ok |-> TRUE, df |-> fsys[file_path].table]

\* save_file: the file holds the frame afterwards; PermissionError when the
\* write is denied.
save_file(fsys, denied, frame, file_path) ==
    IF Lower(file_path.suffix) \notin {".csv", ".xlsx"}
    THEN [status |-> "error", fs |-> fsys]
    ELSE IF file_path \in denied
    THEN [status |-> "denied", fs |-> fsys]
    ELSE [status |-> "saved", fs |-> [fsys EXCEPT ![file_path] = Holds(frame)]]

NoCall == [status |-> "none", warnings |-> <<>>, built |-> EmptyFrame,
           final |-> EmptyFrame]

\* standardize_data(base_file, new_file): the file system afterwards and
\* what the call did.  status is "saved" (line 163), "denied" (the
\* PermissionError handler, line 167) or "error" (the handler of line 176).
standardize_data(fsys, denied, base, new) ==
    LET b == read_file(fsys, base)
        n == read_file(fsys, new)
    IN  IF ~b.ok \/ ~n.ok
        THEN [fs |-> fsys, call |-> [NoCall EXCEPT !.status = "error"]]
        ELSE AppliedTo(
                 LAMBDA r :
                     IF ~r.ok
                     THEN [fs |-> fsys,
                           call |-> [NoCall EXCEPT !.status = "error",
                                                   !.warnings = r.warnings]]
                     ELSE LET s == save_file(fsys, denied, r.final, new)
                          IN  [fs |-> s.fs,
                               call |-> [status |-> s.status, warnings |-> r.warnings,
                                         built |-> r.built, final |-> r.final]],
                 Reconcile(b.df, n.df))

\* ------------------------------------------------------- the model's inputs
\* The suffix of the i-th path of the model.
SuffixOf(i) ==
    CASE i % 4 = 1 -> ".csv"
      [] i % 4 = 2 -> ".xlsx"
      [] i % 4 = 3 -> ".txt"
      [] OTHER     -> ".CSV"

\* The base file outside the folder, and the paths a folder can list.
Outside == Path(0, ".csv")

PathPool == {Path(i, SuffixOf(i)) : i \in 1..MaxFiles}

AllPaths == PathPool \cup {Outside}

\* The column names of the tables a single call is given: a plain name, a
\* name that ends in _<digits>, a name that ends in .<digits>, and the name
\* the latter is stripped to.
ColumnNames == { <<"B">>, <<"B", "_", "1">>, <<"H">>, <<"H", ".", "1">> }

\* The headers of 1..max columns over the names.
Headers(names, max) == UNION {[1..n -> names] : n \in 1..max}

\* The characters of the names given to the stripping step on its own.
StripAlphabet == {"H", ".", "1", "2"}

\* The headers of the files of a folder.
FolderHeaders == { << <<"H", ".", "1">> >>, << <<"H">>, <<"H">> >> }

\* ------------------------------------------------- one standardize_data call
\* The base file holds a table R and the new file a table T, of no rows or
\* of MaxRows rows; R has one row more than any T.
Init ==
    /\ \E R \in Headers(ColumnNames, MaxCols), T \in Headers(ColumnNames, MaxCols),
          nrows \in {0, MaxRows} :
           fs = [p \in AllPaths |->
                    IF p = Outside THEN Holds(Frame(0, R, MaxRows + 1))
                    ELSE IF p = Path(1, ".csv") THEN Holds(Frame(1, T, nrows))
                    ELSE Absent]
    /\ locked = {}
    /\ folder = [exists |-> FALSE, entries |-> {}]
    /\ base_file = Outside
    /\ new_file = Path(1, ".csv")
    /\ files_to_process = <<>>
    /\ file_index = 1
    /\ pc = "call"
    /\ call = NoCall
    /\ attempts = [p \in AllPaths |-> 0]
    /\ fs0 = fs
    /\ df = EmptyFrame
    /\ trail = <<>>

\* standardize_data(base_file, new_file), lines 81-183.
StandardizeData ==
    /\ pc = "call"
    /\ LET res == standardize_data(fs, locked, base_file, new_file)
       IN  /\ fs' = res.fs
           /\ call' = res.call
    /\ attempts' = [attempts EXCEPT ![new_file] = @ + 1]
    /\ pc' = "returned"
    /\ UNCHANGED <<locked, folder, base_file, new_file, files_to_process,
                   file_index, fs0, df, trail>>

Next == StandardizeData

Spec == Init /\ [][Next]_vars


\* ----------------------------------------- claims about one reconciliation
\* The reference table R and the target table T of the call, as they were
\* before it, and what the call has done.
RefTable == fs0[base_file].table

TargetTable == fs0[new_file].table

Returned == pc = "returned"

TableBuilt == call.status \in {"saved", "denied"}

\* For each distinct name of cols in first-occurrence order, its instances
\* 1..k: the columns a table with R's layout has.
RECURSIVE Expansion(_, _)
Expansion(names, cols) ==
    IF Len(names) = 0 THEN <<>>
    ELSE [i \in 1..Count(Head(names), cols) |-> <<Head(names), i>>]
             \o Expansion(Tail(names), cols)

RefExpansion == Expansion(UniqueColumns(RefTable.columns), RefTable.columns)

\* The positions of the table's columns named col, left to right.
RECURSIVE Available(_, _, _)
Available(col, cols, j) ==
    IF j > Len(cols) THEN <<>>
    ELSE (IF cols[j] = col THEN <<j>> ELSE <<>>) \o Available(col, cols, j + 1)

AllNaN(series) == \A r \in 1..Len(series) : series[r] = NaN

Cells(frame) == UNION {Range(frame.data[j]) : j \in 1..Len(frame.data)}

\* The table with its columns in the order pi.
Permuted(frame, pi) ==
    [columns |-> [j \in 1..Len(frame.columns) |-> frame.columns[pi[j]]],
     data    |-> [j \in 1..Len(frame.columns) |-> frame.data[pi[j]]],
     nrows   |-> frame.nrows]

ColumnOrders(n) ==
    {pi \in [1..n -> 1..n] : \A a, b \in 1..n : pi[a] = pi[b] => a = b}

C2_RowCount ==
    (Returned /\ TableBuilt) =>
        /\ call.final.nrows = TargetTable.nrows
        /\ \A j \in 1..Len(call.final.data) :
               Len(call.final.data[j]) = TargetTable.nrows

Dropped == {j \in 1..Len(TargetTable.columns) :
                TargetTable.columns[j] \notin Range(RefTable.columns)}

ExpectedWarnings ==
    LET names == UniqueColumns(RefTable.columns)
        short == SelectSeq(names, LAMBDA c :
                     Len(Available(c, TargetTable.columns, 1))
                         < Len(Available(c, RefTable.columns, 1)))
    IN  [k \in 1..Len(short) |->
            << short[k], Len(Available(short[k], RefTable.columns, 1)),
               Len(Available(short[k], TargetTable.columns, 1)) >>]

NamesUpTo(n) == UNION {[1..k -> StripAlphabet] : k \in 0..n}

StripInit ==
    /\ \E name \in NamesUpTo(MaxLen) :
           /\ df = Frame(1, <<name>>, 0)
           /\ trail = <<df.columns>>
    /\ fs = [p \in AllPaths |-> Absent]
    /\ locked = {}
    /\ folder = [exists |-> FALSE, entries |-> {}]
    /\ base_file = Outside
    /\ new_file = Outside
    /\ files_to_process = <<>>
    /\ file_index = 1
    /\ pc = "strip"
    /\ call = NoCall
    /\ attempts = [p \in AllPaths |-> 0]
    /\ fs0 = fs

\* df = remove_column_numbering(df), applied up to twice.
RemoveColumnNumbering ==
    /\ pc = "strip"
    /\ Len(trail) < 3
    /\ df' = remove_column_numbering(df)
    /\ trail' = Append(trail, df'.columns)
    /\ UNCHANGED <<fs, locked, folder, base_file, new_file, files_to_process,
                   file_index, pc, call, attempts, fs0>>

StripNext == RemoveColumnNumbering

StripSpec == StripInit /\ [][StripNext]_vars

\* The name without its last .<digits> group, cut by position.
WithoutLastGroup(s) == SubSeq(s, 1, Len(s) - TrailingDigits(s) - 1)

\* The name ends in two or more .<digits> groups.
SeveralGroups(s) == EndsWithDotNumber(s) /\ EndsWithDotNumber(WithoutLastGroup(s))

\* C6 as stated: for every name, stripping twice gives what stripping once
\* gives.
C6_IdempotentAsStated ==
    Len(trail) = 3 => trail[3] = trail[2]

\* C6 as amended: stripping twice gives what stripping once gives for every
\* name that does not end in two or more .<digits> groups; a name that does
\* loses one group per application, so the two results differ.
C6_IdempotentOneGroup ==
    Len(trail) = 3 =>
        IF SeveralGroups(trail[1][1])
        THEN trail[3] # trail[2] /\ Len(trail[3][1]) < Len(trail[2][1])
        ELSE trail[3] = trail[2]

\* A name that ends in one group, stripped twice: the first application
\* shortened it and the second left it alone.
C6_Witness ==
    /\ Len(trail) = 3
    /\ EndsWithDotNumber(trail[1][1])
    /\ ~SeveralGroups(trail[1][1])
    /\ trail[2] # trail[1]
    /\ trail[3] = trail[2]


\* ---------------------------------------------------- standardize_folder
\* file.suffix.lower() in ['.csv', '.xlsx'], line 208.
Eligible(file) == Lower(file.suffix) \in {".csv", ".xlsx"}

\* What a path of the model can hold at the start: a table with one of the
\* folder headers, garbage, nothing.
Contents ==
    {[kind |-> "table", header |-> h] : h \in FolderHeaders}
        \cup {[kind |-> "corrupt", header |-> <<>>], [kind |-> "absent", header |-> <<>>]}

Content(file, c) ==
    IF c.kind = "table" THEN Holds(Frame(file.stem, c.header, MaxRows))
    ELSE IF c.kind = "corrupt" THEN Corrupt
    ELSE Absent

\* The orders folder.glob('*') can list a set of files in.
Orders(files) ==
    {order \in [1..Cardinality(files) -> files] :
        \A a, b \in 1..Cardinality(files) : order[a] = order[b] => a = b}

FolderInit ==
    /\ \E k \in 0..MaxFiles, exists \in BOOLEAN, c \in [AllPaths -> Contents] :
           LET entries == {p \in PathPool : p.stem <= k}
           IN  /\ exists \/ k = 0
               /\ folder = [exists |-> exists, entries |-> entries]
               /\ base_file \in entries \cup {Outside}
               /\ \A p \in AllPaths :
                      IF p \in entries /\ (Eligible(p) \/ p = base_file)
                      THEN c[p].kind # "absent"
                      ELSE IF p \in entries THEN c[p].kind = "corrupt"
                      ELSE IF p = base_file THEN TRUE
                      ELSE c[p].kind = "absent"
               /\ fs = [p \in AllPaths |-> Content(p, c[p])]
               /\ locked \in {{}} \cup {{p} : p \in {q \in entries : Eligible(q)}}
    /\ new_file = Outside
    /\ files_to_process = <<>>
    /\ file_index = 1
    /\ pc = "folder"
    /\ call = NoCall
    /\ attempts = [p \in AllPaths |-> 0]
    /\ fs0 = fs
    /\ df = EmptyFrame
    /\ trail = <<>>

\* Lines 194-200: the base file or the folder does not exist; the
\* FileNotFoundError ends the call in the handler of line 228.
VerifyFails ==
    /\ pc = "folder"
    /\ fs[base_file].kind = "absent" \/ ~folder.exists
    /\ pc' = "failed"
    /\ UNCHANGED <<fs, locked, folder, base_file, new_file, files_to_process,
                   file_index, call, attempts, fs0, df, trail>>

\* Lines 202-213: no entry of the folder is a csv or xlsx file.
NoFiles ==
    /\ pc = "folder"
    /\ fs[base_file].kind # "absent" /\ folder.exists
    /\ {f \in folder.entries : Eligible(f)} = {}
    /\ pc' = "done"
    /\ UNCHANGED <<fs, locked, folder, base_file, new_file, files_to_process,
                   file_index, call, attempts, fs0, df, trail>>

\* Lines 202-215: the csv and xlsx entries are collected in glob's order.
Collect ==
    /\ pc = "folder"
    /\ fs[base_file].kind # "absent" /\ folder.exists
    /\ {f \in folder.entries : Eligible(f)} # {}
    /\ files_to_process' \in Orders({f \in folder.entries : Eligible(f)})
    /\ file_index' = 1
    /\ pc' = "loop"
    /\ UNCHANGED <<fs, locked, folder, base_file, new_file, call, attempts,
                   fs0, df, trail>>

\* A plausible slip: a file that fails ends the batch.
AbortOnFailure(status) == IF status = "saved" THEN "loop" ELSE "failed"

\* Lines 220-224: whatever standardize_data did, the loop goes on to the
\* next file.
AfterFile(status) == "loop"

\* Lines 218-224: one iteration of the loop over files_to_process.
ProcessFile ==
    /\ pc = "loop"
    /\ file_index <= Len(files_to_process)
    /\ LET file_path == files_to_process[file_index]
           res       == standardize_data(fs, locked, base_file, file_path)
       IN  /\ new_file' = file_path
           /\ fs' = res.fs
           /\ call' = res.call
           /\ pc' = AfterFile(res.call.status)
           /\ attempts' = [attempts EXCEPT ![file_path] = @ + 1]
    /\ file_index' = file_index + 1
    /\ UNCHANGED <<locked, folder, base_file, files_to_process, fs0, df, trail>>

\* Line 226: the loop is over.
Complete ==
    /\ pc = "loop"
    /\ file_index > Len(files_to_process)
    /\ pc' = "done"
    /\ UNCHANGED <<fs, locked, folder, base_file, new_file, files_to_process,
                   file_index, call, attempts, fs0, df, trail>>

FolderNext == VerifyFails \/ NoFiles \/ Collect \/ ProcessFile \/ Complete

\* The program is sequential and nothing it waits for can fail to come: a
\* step that is possible is taken.
FolderSpec == FolderInit /\ [][FolderNext]_vars /\ WF_vars(FolderNext)


\* ------------------------------------------------ claims about the batch
EligibleEntries == {f \in folder.entries : Eligible(f)}

\* The base file and the folder were found to exist.
Verified == fs0[base_file].kind # "absent" /\ folder.exists

\* The batch is over (line 226, or line 213 with nothing to process) and
\* standardize_data was called exactly once on every csv and xlsx entry of
\* the folder and on nothing else.
Completed ==
    /\ pc = "done"
    /\ \A p \in AllPaths :
           attempts[p] = IF p \in EligibleEntries THEN 1 ELSE 0

\* C9: once the base file and the folder are found to exist, whatever
\* fails while a file is processed, the batch comes to its end with every
\* csv and xlsx entry attempted exactly once.
C9_BatchIsolation == Verified ~> Completed

\* A finished batch whose first file could not be read and whose last file
\* was standardized and saved.
C9_Witness ==
    /\ pc = "done"
    /\ Len(files_to_process) >= 2
    /\ fs0[files_to_process[1]].kind = "corrupt"
    /\ attempts[files_to_process[1]] = 1
    /\ call.status = "saved"
    /\ new_file = files_to_process[Len(files_to_process)]

\* C10: whatever the folder holds and whatever the order of the files, a
\* finished batch leaves in each csv or xlsx entry what reconciling that
\* entry's content at the start against the base file at the start gives.
C10_NoOrderDependency ==
    pc = "done" =>
        \A p \in EligibleEntries :
            fs[p] = standardize_data(fs0, locked, base_file, p).fs[p]

=============================================================================
